---- MODULE Spec2Model ----
(***************************************************************************)
(* A model of the two laboratory exercises of the repository:              *)
(*   LR1  fib.py   four ways of producing the Fibonacci sequence           *)
(*                 (fib_gen, fib_gen_simplified, fibonacchi_gen,           *)
(*                 fibonacchi_korutina);                                   *)
(*   LR2  main.py  CBRProvider and its YamlDecorator / CsvDecorator        *)
(*                 wrappers.                                               *)
(* Python integers are unbounded, so no width is modelled.  Python lists   *)
(* are 0-based and TLA+ sequences 1-based: list element i is seq[i + 1].   *)
(***************************************************************************)
EXTENDS Integers, Sequences, FiniteSets, TLC

VARIABLES
    it,        \* one fib_gen instance: its fields a and b
    itOut,     \* the values its __next__ has returned, in order
    gen,       \* one fibonacchi_gen() generator: its frame (pc, a, b)
    genOut,    \* the values it has yielded, in order
    coro,      \* one fibonacchi_korutina() generator: its frame (pc, index, a, b)
    coroOut,   \* every resume of that instance, in order: whether None was sent, the outcome
    sequence,  \* fib_gen_simplified.sequence of one instance
    lastQ,     \* the last y[index] evaluated on it: the index and the outcome
    views,     \* the generators obtained from iter(y): frame (pc, i) and yielded values
    test,      \* test_consistency_across_implementations: n, its position, its lists
    chain,     \* the decorators built around one CBRProvider, innermost first
    data,      \* CBRProvider._data
    gets,      \* number of requests.get calls made so far
    files,     \* every open(name, "w") made so far, with the text written
    lastOp     \* the last get_data / save_to_file call on the chain and its outcome

seqVars  == <<it, itOut, gen, genOut, coro, coroOut, sequence, lastQ, views, test>>
pipeVars == <<chain, data, gets, files, lastOp>>
vars     == <<it, itOut, gen, genOut, coro, coroOut, sequence, lastQ, views, test,
              chain, data, gets, files, lastOp>>

---------------------------------------------------------------------------
(* Bounds of the model.                                                    *)

MaxSteps   == 7    \* next() calls made on fib_gen and on fibonacchi_gen
MaxIndex   == 6    \* largest index queried or sent
MinIndex   == 2    \* negative indices queried or sent go down to -MinIndex
MaxResumes == 3    \* resumes of one coroutine instance
NumViews   == 2    \* generators taken from one fib_gen_simplified
MaxViewLen == 5    \* values drawn from one such generator

Indices == (0 - MinIndex) .. MaxIndex

---------------------------------------------------------------------------
(* The Fibonacci sequence of the glossary: F(0)=0, F(1)=1,                 *)
(* F(n)=F(n-1)+F(n-2).                                                     *)

RECURSIVE F(_)
F(n) == IF n = 0 THEN 0 ELSE IF n = 1 THEN 1 ELSE F(n - 1) + F(n - 2)

\* test_fib.py setUp: self.expected
expected == <<0, 1, 1, 2, 3, 5, 8, 13, 21, 34, 55, 89, 144, 233, 377>>

---------------------------------------------------------------------------
(* Outcomes of a call: a returned value, None, or a raised exception.      *)

Value(v)   == [kind |-> "value", val |-> v]
NoneValue  == [kind |-> "None", val |-> 0]
Raised(e)  == [kind |-> e, val |-> 0]

---------------------------------------------------------------------------
(* class fib_gen                                                           *)

\* __init__: self.a = 0; self.b = 1
FibGenInit == [a |-> 0, b |-> 1]

\* __next__: a = self.a; self.b += self.a; self.a = self.b - self.a; return a
\* (a faulty variant: self.a = self.b, the subtraction left out)
FibGenStepNoSub(self) ==
    LET b1 == self.b + self.a
    IN  [ret |-> self.a, self |-> [a |-> b1, b |-> b1]]

FibGenStep(self) ==
    LET b1 == self.b + self.a
        a1 == b1 - self.a
    IN  [ret |-> self.a, self |-> [a |-> a1, b |-> b1]]

\* next(x)
FibGenCall ==
    /\ LET r == FibGenStep(it)
       IN  /\ it' = r.self
           /\ itOut' = Append(itOut, r.ret)
    /\ UNCHANGED <<gen, genOut, coro, coroOut, sequence, lastQ, views>>
    /\ UNCHANGED pipeVars

FibGenNext ==
    /\ Len(itOut) < MaxSteps
    /\ FibGenCall
    /\ UNCHANGED test

---------------------------------------------------------------------------
(* def fibonacchi_gen()                                                    *)

\* a generator object before its first resume
GenInit == [pc |-> "created", a |-> 0, b |-> 0]

\* One resume: from the start, a = 0; b = 1 and the first yield a; from a
\* yield, res = a + b; a = b; b = res and the next yield a.
GenResume(g) ==
    IF g.pc = "created"
    THEN [ret |-> 0, g |-> [pc |-> "yield", a |-> 0, b |-> 1]]
    ELSE LET res == g.a + g.b
         IN  [ret |-> g.b, g |-> [pc |-> "yield", a |-> g.b, b |-> res]]

\* next(g)
GenCall ==
    /\ LET r == GenResume(gen)
       IN  /\ gen' = r.g
           /\ genOut' = Append(genOut, r.ret)
    /\ UNCHANGED <<it, itOut, coro, coroOut, sequence, lastQ, views>>
    /\ UNCHANGED pipeVars

GenNext ==
    /\ Len(genOut) < MaxSteps
    /\ GenCall
    /\ UNCHANGED test

---------------------------------------------------------------------------
(* def fibonacchi_korutina()                                               *)

\* a generator object before its first resume
KorutinaInit == [pc |-> "created", index |-> 0, a |-> 0, b |-> 0]

\* for _ in range(index): a, b = b, a + b     (range(k) is empty for k <= 0)
RECURSIVE KorutinaLoop(_, _, _)
KorutinaLoop(a, b, k) ==
    IF k <= 0 THEN [a |-> a, b |-> b] ELSE KorutinaLoop(b, a + b, k - 1)

\* One resume of the generator with `sent`: next(h) sends None, h.send(v)
\* sends v.
\*   created: a non-None value cannot be sent to a generator that has not
\*            started (TypeError, the generator stays as it was); otherwise it
\*            runs to `index = yield` and hands back None;
\*   await:   index = sent; range(None) raises TypeError, which ends the
\*            generator; otherwise a = 0, b = 1, the loop, and `yield a`;
\*   yield:   the function body ends: StopIteration;
\*   closed:  StopIteration.
\* (a faulty variant: the routine loops back to `yield a` instead of ending)
KorutinaResumeNoEnd(c, sent) ==
    CASE c.pc = "created" ->
           IF sent.kind = "None"
           THEN [out |-> NoneValue, c |-> [c EXCEPT !.pc = "await"]]
           ELSE [out |-> Raised("TypeError"), c |-> c]
      [] c.pc = "await" ->
           IF sent.kind = "None"
           THEN [out |-> Raised("TypeError"), c |-> [c EXCEPT !.pc = "closed"]]
           ELSE LET r == KorutinaLoop(0, 1, sent.val)
                IN  [out |-> Value(r.a),
                     c |-> [pc |-> "yield", index |-> sent.val, a |-> r.a, b |-> r.b]]
      [] c.pc = "yield" ->
           [out |-> Value(c.a), c |-> c]
      [] OTHER ->
           [out |-> Raised("StopIteration"), c |-> c]

\* (a faulty variant: a negative index refused with IndexError, as
\* fib_gen_simplified refuses it)
KorutinaResumeChecked(c, sent) ==
    CASE c.pc = "created" ->
           IF sent.kind = "None"
           THEN [out |-> NoneValue, c |-> [c EXCEPT !.pc = "await"]]
           ELSE [out |-> Raised("TypeError"), c |-> c]
      [] c.pc = "await" ->
           IF sent.kind = "None"
           THEN [out |-> Raised("TypeError"), c |-> [c EXCEPT !.pc = "closed"]]
           ELSE IF sent.val < 0
           THEN [out |-> Raised("IndexError"),
                 c |-> [c EXCEPT !.pc = "closed", !.index = sent.val]]
           ELSE LET r == KorutinaLoop(0, 1, sent.val)
                IN  [out |-> Value(r.a),
                     c |-> [pc |-> "yield", index |-> sent.val, a |-> r.a, b |-> r.b]]
      [] c.pc = "yield" ->
           [out |-> Raised("StopIteration"), c |-> [c EXCEPT !.pc = "closed"]]
      [] OTHER ->
           [out |-> Raised("StopIteration"), c |-> c]

KorutinaResume(c, sent) ==
    CASE c.pc = "created" ->
           IF sent.kind = "None"
           THEN [out |-> NoneValue, c |-> [c EXCEPT !.pc = "await"]]
           ELSE [out |-> Raised("TypeError"), c |-> c]
      [] c.pc = "await" ->
           IF sent.kind = "None"
           THEN [out |-> Raised("TypeError"), c |-> [c EXCEPT !.pc = "closed"]]
           ELSE LET r == KorutinaLoop(0, 1, sent.val)
                IN  [out |-> Value(r.a),
                     c |-> [pc |-> "yield", index |-> sent.val, a |-> r.a, b |-> r.b]]
      [] c.pc = "yield" ->
           [out |-> Raised("StopIteration"), c |-> [c EXCEPT !.pc = "closed"]]
      [] OTHER ->
           [out |-> Raised("StopIteration"), c |-> c]

\* h = fibonacchi_korutina()
KorutinaNew ==
    /\ coroOut # <<>>
    /\ coro' = KorutinaInit
    /\ coroOut' = <<>>
    /\ UNCHANGED <<it, itOut, gen, genOut, sequence, lastQ, views, test>>
    /\ UNCHANGED pipeVars

Resume(sent) ==
    /\ Len(coroOut) < MaxResumes
    /\ LET r == KorutinaResume(coro, sent)
       IN  /\ coro' = r.c
           /\ coroOut' = Append(coroOut, [sentNone |-> sent.kind = "None", out |-> r.out])
    /\ UNCHANGED <<it, itOut, gen, genOut, sequence, lastQ, views, test>>
    /\ UNCHANGED pipeVars

\* next(h)
KorutinaNext == Resume(NoneValue)

\* h.send(index)
KorutinaSend == \E index \in Indices : Resume(Value(index))

---------------------------------------------------------------------------
(* class fib_gen_simplified                                                *)

\* __init__: self.sequence = [0, 1]
SimplifiedInit == <<0, 1>>

\* while len(self.sequence) <= index:
\*     next_val = self.sequence[-1] + self.sequence[-2]
\*     self.sequence.append(next_val)
RECURSIVE Extend(_, _)
Extend(s, index) ==
    IF Len(s) <= index
    THEN Extend(Append(s, s[Len(s)] + s[Len(s) - 1]), index)
    ELSE s

\* __getitem__(index): the outcome and the cache afterwards
\* (faulty variants: no check of the sign, so that a negative index reaches
\* the list as Python indexes it from the end; the cache rebuilt from [0, 1]
\* on every call)
GetitemNoCheck(s, index) ==
    LET s1 == Extend(s, index)
    IN  IF index < 0
        THEN [out |-> Value(s1[Len(s1) + 1 + index]), seq |-> s1]
        ELSE [out |-> Value(s1[index + 1]), seq |-> s1]

GetitemRebuild(s, index) ==
    IF index < 0
    THEN [out |-> Raised("IndexError"), seq |-> s]
    ELSE LET s1 == Extend(SimplifiedInit, index)
         IN  [out |-> Value(s1[index + 1]), seq |-> s1]

Getitem(s, index) ==
    IF index < 0
    THEN [out |-> Raised("IndexError"), seq |-> s]
    ELSE LET s1 == Extend(s, index)
         IN  [out |-> Value(s1[index + 1]), seq |-> s1]

\* y[index]
QueryAt(index) ==
    LET r == Getitem(sequence, index)
    IN  /\ sequence' = r.seq
        /\ lastQ' = [asked |-> TRUE, index |-> index, out |-> r.out]
        /\ UNCHANGED <<it, itOut, gen, genOut, coro, coroOut, views>>
        /\ UNCHANGED pipeVars

Query == \E index \in Indices : QueryAt(index) /\ UNCHANGED test

\* iter(y): a generator over y, before its first resume
ViewInit == [pc |-> "created", i |-> 0, out |-> <<>>]

\* One resume of such a generator: from the start, i = 0 and `yield self[i]`;
\* from the yield, i += 1 and `yield self[i]`.  The values yielded are kept in
\* out.
\* (a faulty variant: the position taken from the shared cache, not from i)
ViewIndexShared(v) == IF v.pc = "created" THEN 0 ELSE Len(sequence) - 1

ViewIndex(v) == IF v.pc = "created" THEN 0 ELSE v.i + 1

ViewNext ==
    \E k \in 1 .. NumViews :
        /\ Len(views[k].out) < MaxViewLen
        /\ LET i1 == ViewIndex(views[k])
               r  == Getitem(sequence, i1)
           IN  /\ sequence' = r.seq
               /\ views' = [views EXCEPT ![k] =
                              [pc |-> "yield", i |-> i1,
                               out |-> Append(views[k].out, r.out)]]
        /\ UNCHANGED <<it, itOut, gen, genOut, coro, coroOut, lastQ, test>>
        /\ UNCHANGED pipeVars

\* a view is dropped and iter(y) taken again
ViewNew ==
    \E k \in 1 .. NumViews :
        /\ views[k] # ViewInit
        /\ views' = [views EXCEPT ![k] = ViewInit]
        /\ UNCHANGED <<it, itOut, gen, genOut, coro, coroOut, sequence, lastQ, test>>
        /\ UNCHANGED pipeVars

---------------------------------------------------------------------------
(* test_fib.py: test_consistency_across_implementations.  One instance of  *)
(* each kind; n values are taken from fib_gen (result1), from              *)
(* fib_gen_simplified by index 0 .. n-1 (result2), from fibonacchi_gen     *)
(* (result3), and from n coroutines, each primed and sent i (result4);     *)
(* then the four lists are compared with expected[:n].  result1 and        *)
(* result3 are itOut and genOut.                                           *)

TestN == 15    \* n = 15

TestIdle == [n |-> 0, pc |-> "idle", result2 |-> <<>>, result4 |-> <<>>]

TestStart(n) == [n |-> n, pc |-> "result1", result2 |-> <<>>, result4 |-> <<>>]

\* result1 = [next(fib_iter) for _ in range(n)]
TestResult1 ==
    /\ test.pc = "result1"
    /\ FibGenCall
    /\ test' = IF Len(itOut) + 1 = test.n THEN [test EXCEPT !.pc = "result2"] ELSE test

\* result2 = [fib_simpl[i] for i in range(n)]
TestResult2 ==
    /\ test.pc = "result2"
    /\ QueryAt(Len(test.result2))
    /\ test' = [test EXCEPT
                  !.result2 = Append(@, lastQ'.out.val),
                  !.pc = IF Len(test.result2) + 1 = test.n THEN "result3" ELSE @]

\* result3 = [next(fib_gen_func) for _ in range(n)]
TestResult3 ==
    /\ test.pc = "result3"
    /\ GenCall
    /\ test' = IF Len(genOut) + 1 = test.n THEN [test EXCEPT !.pc = "result4"] ELSE test

\* for i in range(n):
\*     coro = fibonacchi_korutina(); next(coro); result4.append(coro.send(i))
TestResult4 ==
    /\ test.pc = "result4"
    /\ LET i  == Len(test.result4)
           r1 == KorutinaResume(KorutinaInit, NoneValue)
           r2 == KorutinaResume(r1.c, Value(i))
       IN  /\ coro' = r2.c
           /\ coroOut' = << [sentNone |-> TRUE, out |-> r1.out],
                            [sentNone |-> FALSE, out |-> r2.out] >>
           /\ test' = [test EXCEPT
                         !.result4 = Append(@, r2.out.val),
                         !.pc = IF i + 1 = test.n THEN "assert" ELSE @]
    /\ UNCHANGED <<it, itOut, gen, genOut, sequence, lastQ, views>>
    /\ UNCHANGED pipeVars

---------------------------------------------------------------------------
(* Python values of main.py.  A value carries its type; a str is kept as   *)
(* the sequence of its lines, each line with its terminator (a str without *)
(* a line break is one line, the empty str no line), a dict as the         *)
(* sequence of its items in insertion order.                               *)

PStr(lines)   == [type |-> "str", v |-> lines]
PInt(n)       == [type |-> "int", v |-> n]
PFloat(w, d)  == [type |-> "float", v |-> <<w, d>>]   \* the float w.d, d one digit
PDict(items)  == [type |-> "dict", v |-> items]
PNone         == [type |-> "None", v |-> <<>>]
Item(k, v)    == [k |-> k, v |-> v]

RECURSIVE Concat(_)
Concat(ss) == IF ss = <<>> THEN "" ELSE Head(ss) \o Concat(Tail(ss))

RECURSIVE Join(_, _)
Join(ss, sep) ==
    IF ss = <<>> THEN ""
    ELSE IF Len(ss) = 1 THEN ss[1]
    ELSE ss[1] \o sep \o Join(Tail(ss), sep)

\* str(x) of a scalar
ScalarText(x) ==
    CASE x.type = "str"   -> Concat(x.v)
      [] x.type = "int"   -> ToString(x.v)
      [] x.type = "float" -> ToString(x.v[1]) \o "." \o ToString(x.v[2])

\* d.get(key, default)
DictGet(d, key, default) ==
    IF \E i \in 1 .. Len(d.v) : d.v[i].k = key
    THEN d.v[CHOOSE i \in 1 .. Len(d.v) : d.v[i].k = key].v
    ELSE default

\* list(d.keys())
DictKeys(d) == [i \in 1 .. Len(d.v) |-> d.v[i].k]

RECURSIVE Flat(_)
Flat(ss) == IF ss = <<>> THEN <<>> ELSE Head(ss) \o Flat(Tail(ss))

---------------------------------------------------------------------------
(* The responses the model lets requests.get(URL) produce: the request     *)
(* itself fails, the status is an error, the body is not JSON, or the body *)
(* is one of a few datasets of the daily_json.js shape.  Field values hold *)
(* no comma, quote or line break, so the csv writer quotes nothing.        *)

USD == PDict(<<Item("CharCode", PStr(<<"USD">>)), Item("Name", PStr(<<"Dollar">>)),
               Item("Value", PFloat(90, 0)), Item("Nominal", PInt(1))>>)
EUR == PDict(<<Item("CharCode", PStr(<<"EUR">>)), Item("Name", PStr(<<"Euro">>)),
               Item("Value", PFloat(98, 5)), Item("Nominal", PInt(1))>>)
\* test_lab2.py line 26: a record with a Value only
USDValueOnly == PDict(<<Item("Value", PFloat(90, 0))>>)

Datasets ==
    << PDict(<<Item("Date", PStr(<<"d1">>))>>),
       PDict(<<Item("Date", PStr(<<"d2">>)), Item("Valute", PDict(<<>>))>>),
       PDict(<<Item("Valute", PDict(<<Item("USD", USD)>>))>>),
       PDict(<<Item("Date", PStr(<<"d1">>)),
               Item("Valute", PDict(<<Item("USD", USD), Item("EUR", EUR)>>))>>),
       PDict(<<Item("Valute", PDict(<<Item("EUR", EUR), Item("USD", USDValueOnly)>>))>>) >>

Failures == <<"ConnectionError", "HTTPError", "JSONDecodeError">>

Responses ==
    [i \in 1 .. Len(Failures) |-> [kind |-> Failures[i], json |-> PDict(<<>>)]]
    \o [i \in 1 .. Len(Datasets) |-> [kind |-> "ok", json |-> Datasets[i]]]

---------------------------------------------------------------------------
(* Serialisers.                                                            *)

\* a scalar as yaml.dump writes it inside a mapping: plain, the empty str ''
YamlScalar(x) == IF x.type = "str" /\ x.v = <<>> THEN "''" ELSE ScalarText(x)

\* yaml.dump(d, allow_unicode=True, sort_keys=False) of a mapping, block
\* style: "key: scalar", or "key:" over the nested mapping indented by two
\* spaces, items in insertion order; an empty mapping is written {}.
RECURSIVE YamlMapping(_, _)
YamlMapping(d, indent) ==
    Flat([i \in 1 .. Len(d.v) |->
            LET e == d.v[i]
            IN  IF e.v.type = "dict"
                THEN IF e.v.v = <<>>
                     THEN << indent \o e.k \o ": {}\n" >>
                     ELSE << indent \o e.k \o ":\n" >> \o YamlMapping(e.v, indent \o "  ")
                ELSE << indent \o e.k \o ": " \o YamlScalar(e.v) \o "\n" >>])

\* yaml.dump of a value: a mapping as above; a str as one quoted scalar (the
\* emitter's escapes and folding inside the quotes are not modelled).
YamlDump(x) ==
    IF x.type = "dict"
    THEN IF x.v = <<>> THEN PStr(<<"{}\n">>) ELSE PStr(YamlMapping(x, ""))
    ELSE IF x.v = <<>> THEN PStr(<<"''\n">>)
         ELSE PStr(<<"\"" \o Concat(x.v) \o "\"\n">>)

\* json.dump(data, f, ensure_ascii=False, indent=4): one item per line,
\* indented by four spaces per level, items separated by commas.
JsonScalar(x) == IF x.type = "str" THEN "\"" \o Concat(x.v) \o "\"" ELSE ScalarText(x)

RECURSIVE JsonObject(_, _)
JsonObject(d, indent) ==
    IF d.v = <<>> THEN << "{}" >>
    ELSE << "{\n" >>
         \o Flat([i \in 1 .. Len(d.v) |->
              LET e    == d.v[i]
                  comma == IF i < Len(d.v) THEN ",\n" ELSE "\n"
                  key   == indent \o "    \"" \o e.k \o "\": "
              IN  IF e.v.type = "dict"
                  THEN LET sub == JsonObject(e.v, indent \o "    ")
                       IN  IF Len(sub) = 1
                           THEN << key \o sub[1] \o comma >>
                           ELSE << key \o sub[1] >>
                                \o SubSeq(sub, 2, Len(sub) - 1)
                                \o << sub[Len(sub)] \o comma >>
                  ELSE << key \o JsonScalar(e.v) \o comma >>])
         \o << indent \o "}" >>

JsonDump(x) == PStr(JsonObject(x, ""))

---------------------------------------------------------------------------
(* class CsvDecorator: the transform                                       *)

\* data.get("Valute", {}) is an attribute of dict: a str has no get
HasGet(x) == x.type = "dict"

\* _flatten_data(data): one row per item of data.get("Valute", {}), in its
\* order, with CharCode (default: the item's key), Name (default ""), Value
\* (default 0) and Nominal (default 1).
FlattenData(d) ==
    LET valutes == DictGet(d, "Valute", PDict(<<>>))
    IN  [i \in 1 .. Len(valutes.v) |->
            LET code == valutes.v[i].k
                info == valutes.v[i].v
            IN  PDict(<<Item("CharCode", DictGet(info, "CharCode", PStr(<<code>>))),
                        Item("Name",     DictGet(info, "Name", PStr(<<>>))),
                        Item("Value",    DictGet(info, "Value", PInt(0))),
                        Item("Nominal",  DictGet(info, "Nominal", PInt(1)))>>)]

\* one line of csv.DictWriter: the cells joined by commas, ended by \r\n
CsvLine(cells) == Join(cells, ",") \o "\r\n"

\* get_data, after the provider's data is in: nothing for no rows, else the
\* header from the first row's keys and a line per row.
\* (a faulty variant: the header written whether or not there are rows)
CsvTextAlwaysHeader(flat) ==
    PStr(<< CsvLine(<<"CharCode", "Name", "Value", "Nominal">>) >>
         \o [i \in 1 .. Len(flat) |->
               CsvLine([j \in 1 .. 4 |-> ScalarText(flat[i].v[j].v)])])

CsvText(flat) ==
    IF flat = <<>>
    THEN PStr(<<>>)
    ELSE LET fieldnames == DictKeys(flat[1])
         IN  PStr(<< CsvLine(fieldnames) >>
                  \o [i \in 1 .. Len(flat) |->
                        CsvLine([j \in 1 .. Len(fieldnames) |->
                                   ScalarText(DictGet(flat[i], fieldnames[j], PStr(<<>>)))])])

---------------------------------------------------------------------------
(* get_data() along a chain.  A call gives back its outcome together with  *)
(* the provider's _data and the number of GETs made once it has run.       *)

\* CBRProvider.get_data: requests.get, raise_for_status, self._data =
\* response.json(), return self._data.  Each of the three calls may raise.
\* (a faulty variant: self._data returned when it is already set)
ProviderGetDataCached(d, n, resp) ==
    IF d.type = "dict"
    THEN [out |-> Value(d), data |-> d, gets |-> n]
    ELSE IF resp.kind = "ok"
         THEN [out |-> Value(resp.json), data |-> resp.json, gets |-> n + 1]
         ELSE [out |-> Raised(resp.kind), data |-> d, gets |-> n + 1]

ProviderGetData(d, n, resp) ==
    IF resp.kind = "ok"
    THEN [out |-> Value(resp.json), data |-> resp.json, gets |-> n + 1]
    ELSE [out |-> Raised(resp.kind), data |-> d, gets |-> n + 1]

\* YamlDecorator.get_data / CsvDecorator.get_data applied to what the wrapped
\* provider returned
Transform(kind, x) ==
    IF kind = "yaml"
    THEN Value(YamlDump(x))
    ELSE IF HasGet(x) THEN Value(CsvText(FlattenData(x)))
         ELSE Raised("AttributeError")

\* get_data() of the component at depth k of chain c (0: the CBRProvider)
RECURSIVE GetData(_, _, _, _, _)
GetData(c, k, d, n, resp) ==
    IF k = 0
    THEN ProviderGetData(d, n, resp)
    ELSE LET inner == GetData(c, k - 1, d, n, resp)
         IN  IF inner.out.kind = "value"
             THEN [inner EXCEPT !.out = Transform(c[k], inner.out.val)]
             ELSE inner

---------------------------------------------------------------------------
(* save_to_file(filename).  A file name is the sequence of its characters. *)

DotYaml == <<".", "y", "a", "m", "l">>
DotYml  == <<".", "y", "m", "l">>
DotCsv  == <<".", "c", "s", "v">>

\* filename.endswith(suffix)
EndsWith(s, suffix) ==
    /\ Len(suffix) <= Len(s)
    /\ SubSeq(s, Len(s) - Len(suffix) + 1, Len(s)) = suffix

\* YamlDecorator.save_to_file:
\* if not filename.endswith(".yaml") and not filename.endswith(".yml"):
\*     filename += ".yaml"
\* (a faulty variant: .yml not accepted)
YamlFileNameYamlOnly(filename) ==
    IF ~EndsWith(filename, DotYaml) THEN filename \o DotYaml ELSE filename

YamlFileName(filename) ==
    IF ~EndsWith(filename, DotYaml) /\ ~EndsWith(filename, DotYml)
    THEN filename \o DotYaml
    ELSE filename

\* CsvDecorator.save_to_file:
\* if not filename.endswith(".csv"): filename += ".csv"
CsvFileName(filename) ==
    IF ~EndsWith(filename, DotCsv) THEN filename \o DotCsv ELSE filename

\* the paths the model passes to save_to_file:
\* r, r.yaml, r.yml, r.csv, ryaml
Paths ==
    { <<"r">>, <<"r">> \o DotYaml, <<"r">> \o DotYml, <<"r">> \o DotCsv,
      <<"r", "y", "a", "m", "l">> }

\* save_to_file(filename) of the outermost component of chain c: the name is
\* fixed first, then get_data() of that same component runs, and only when it
\* has returned is the file opened and written.  CBRProvider writes
\* json.dump of the data under the name as given; a decorator writes the text
\* its own get_data() returned.  opened: the open() calls made, by whom.
\* (a faulty variant: the file opened before get_data() runs)
SaveToFileOpenFirst(c, filename, d, n, resp) ==
    LET k  == Len(c)
        fn == IF k = 0 THEN filename
              ELSE IF c[k] = "yaml" THEN YamlFileName(filename)
              ELSE CsvFileName(filename)
        r  == GetData(c, k, d, n, resp)
    IN  IF r.out.kind = "value"
        THEN [out |-> NoneValue, data |-> r.data, gets |-> r.gets,
              opened |-> << [name |-> fn, by |-> k,
                             text |-> IF k = 0 THEN JsonDump(r.out.val)
                                      ELSE r.out.val] >>]
        ELSE [out |-> r.out, data |-> r.data, gets |-> r.gets,
              opened |-> << [name |-> fn, by |-> k, text |-> PStr(<<>>)] >>]

SaveToFile(c, filename, d, n, resp) ==
    LET k  == Len(c)
        fn == IF k = 0 THEN filename
              ELSE IF c[k] = "yaml" THEN YamlFileName(filename)
              ELSE CsvFileName(filename)
        r  == GetData(c, k, d, n, resp)
    IN  IF r.out.kind = "value"
        THEN [out |-> NoneValue, data |-> r.data, gets |-> r.gets,
              opened |-> << [name |-> fn, by |-> k,
                             text |-> IF k = 0 THEN JsonDump(r.out.val)
                                      ELSE r.out.val] >>]
        ELSE [out |-> r.out, data |-> r.data, gets |-> r.gets, opened |-> <<>>]

---------------------------------------------------------------------------
(* The provider chain in use.                                              *)

MaxDepth == 2    \* decorators around the CBRProvider
MaxCalls == 2    \* get_data / save_to_file calls made on the chain

NoOp == [n |-> 0, op |-> "none", chain |-> <<>>, path |-> <<>>, resp |-> 1,
         out |-> NoneValue, getsBefore |-> 0, filesBefore |-> 0,
         dataBefore |-> PNone]

\* YamlDecorator(provider) / CsvDecorator(provider) around the chain so far
Wrap ==
    \E kind \in {"yaml", "csv"} :
        /\ Len(chain) < MaxDepth
        /\ lastOp.n = 0          \* the chain is built, then used (main.py 232-251)
        /\ chain' = Append(chain, kind)
        /\ UNCHANGED <<data, gets, files, lastOp>>
        /\ UNCHANGED seqVars

\* provider.get_data() on the outermost component
CallGetData ==
    \E i \in 1 .. Len(Responses) :
        /\ lastOp.n < MaxCalls
        /\ LET r == GetData(chain, Len(chain), data, gets, Responses[i])
           IN  /\ data' = r.data
               /\ gets' = r.gets
               /\ lastOp' = [n |-> lastOp.n + 1, op |-> "get_data", chain |-> chain,
                             path |-> <<>>, resp |-> i, out |-> r.out,
                             getsBefore |-> gets, filesBefore |-> Len(files),
                             dataBefore |-> data]
        /\ UNCHANGED <<chain, files>>
        /\ UNCHANGED seqVars

\* provider.save_to_file(path) on the outermost component
CallSaveToFile ==
    \E i \in 1 .. Len(Responses), path \in Paths :
        /\ lastOp.n < MaxCalls
        /\ LET r == SaveToFile(chain, path, data, gets, Responses[i])
           IN  /\ data' = r.data
               /\ gets' = r.gets
               /\ files' = files \o r.opened
               /\ lastOp' = [n |-> lastOp.n + 1, op |-> "save_to_file", chain |-> chain,
                             path |-> path, resp |-> i, out |-> r.out,
                             getsBefore |-> gets, filesBefore |-> Len(files),
                             dataBefore |-> data]
        /\ UNCHANGED chain
        /\ UNCHANGED seqVars

---------------------------------------------------------------------------
(* Specifications.                                                         *)

InitSeq ==
    /\ it = FibGenInit
    /\ itOut = <<>>
    /\ gen = GenInit
    /\ genOut = <<>>
    /\ coro = KorutinaInit
    /\ coroOut = <<>>
    /\ sequence = SimplifiedInit
    /\ lastQ = [asked |-> FALSE, index |-> 0, out |-> NoneValue]
    /\ views = [k \in 1 .. NumViews |-> ViewInit]
    /\ test = TestIdle

\* a CBRProvider just built: self._data = None; nothing fetched or written
InitPipe ==
    /\ chain = <<>>
    /\ data = PNone
    /\ gets = 0
    /\ files = <<>>
    /\ lastOp = NoOp

Init == InitSeq /\ InitPipe

\* the four implementations of fib.py, used side by side
Next ==
    \/ FibGenNext
    \/ GenNext
    \/ KorutinaNew
    \/ KorutinaNext
    \/ KorutinaSend
    \/ Query

Spec == Init /\ [][Next]_vars

\* one fib_gen_simplified, indexed directly and through its iterators
NextView ==
    \/ Query
    \/ ViewNext
    \/ ViewNew

SpecView == Init /\ [][NextView]_vars

\* the run of test_consistency_across_implementations, for n up to the test's
InitTest ==
    /\ it = FibGenInit
    /\ itOut = <<>>
    /\ gen = GenInit
    /\ genOut = <<>>
    /\ coro = KorutinaInit
    /\ coroOut = <<>>
    /\ sequence = SimplifiedInit
    /\ lastQ = [asked |-> FALSE, index |-> 0, out |-> NoneValue]
    /\ views = [k \in 1 .. NumViews |-> ViewInit]
    /\ test \in {TestStart(n) : n \in 1 .. TestN}
    /\ InitPipe

NextTest ==
    \/ TestResult1
    \/ TestResult2
    \/ TestResult3
    \/ TestResult4

SpecTest == InitTest /\ [][NextTest]_vars

\* one CBRProvider, wrapped and called
NextPipe ==
    \/ Wrap
    \/ CallGetData
    \/ CallSaveToFile

SpecPipe == Init /\ [][NextPipe]_vars

---------------------------------------------------------------------------
(* Properties of the sequence sources (fib.py).                            *)

IsPrefix(s, t) == Len(s) <= Len(t) /\ \A i \in 1 .. Len(s) : s[i] = t[i]

\* out[n + 1], the (n+1)-th value produced, is F(n) and is the test's expected[n]
ProducesFib(out) ==
    \A n \in 0 .. Len(out) - 1 :
        /\ out[n + 1] = F(n)
        /\ n < Len(expected) => out[n + 1] = expected[n + 1]

\* C1: the (n+1)-th value returned by next() on a fib_gen, the value y[n] of a
\* fib_gen_simplified, the (n+1)-th value yielded by a fibonacchi_gen() and
\* the value send(n) returns on a primed fibonacchi_korutina() are the same
\* number, F(n), for every n >= 0 in the range reached; they are the leading
\* values 0,1,1,2,3,5,8,13,... of the test's expected list.
ImplementationsAgree ==
    /\ ProducesFib(itOut)
    /\ ProducesFib(genOut)
    /\ (lastQ.asked /\ lastQ.index >= 0) =>
           /\ lastQ.out = Value(F(lastQ.index))
           /\ lastQ.out.val = expected[lastQ.index + 1]
           /\ lastQ.index < Len(itOut) => lastQ.out.val = itOut[lastQ.index + 1]
           /\ lastQ.index < Len(genOut) => lastQ.out.val = genOut[lastQ.index + 1]
    /\ (/\ Len(coroOut) >= 2
        /\ coroOut[1] = [sentNone |-> TRUE, out |-> NoneValue]
        /\ ~coroOut[2].sentNone
        /\ coro.index >= 0) =>
           /\ coroOut[2].out = Value(F(coro.index))
           /\ coroOut[2].out.val = expected[coro.index + 1]
           /\ coro.index < Len(itOut) => coroOut[2].out.val = itOut[coro.index + 1]
           /\ coro.index < Len(genOut) => coroOut[2].out.val = genOut[coro.index + 1]
    /\ test.pc = "assert" =>
           /\ itOut = SubSeq(expected, 1, test.n)
           /\ test.result2 = itOut
           /\ genOut = itOut
           /\ test.result4 = itOut

\* the test has run to its assertions with n = 15: every list is the 15 values
ImplementationsAgreeWitness ==
    /\ test.pc = "assert"
    /\ test.n = TestN
    /\ itOut[TestN] = 377
    /\ test.result2[TestN] = 377 /\ lastQ.index = TestN - 1
    /\ genOut[TestN] = 377
    /\ test.result4[TestN] = 377 /\ coro.index = TestN - 1

CacheIsFibPrefix == \A i \in 0 .. Len(sequence) - 1 : sequence[i + 1] = F(i)

\* C2: the cache of a fib_gen_simplified is always a prefix of the Fibonacci
\* sequence (sequence[i] = F(i) for every i < len(sequence)), and every step
\* leaves it as it was or appends to it: no entry is changed or removed and
\* the length never decreases.
CachePrefixAppendOnly ==
    /\ [](CacheIsFibPrefix)
    /\ [][IsPrefix(sequence, sequence')]_vars

\* a repeated, a negative or a smaller index was asked of a grown cache
CachePrefixAppendOnlyWitness ==
    /\ Len(sequence) = MaxIndex + 1
    /\ lastQ.asked
    /\ lastQ.index < 3
    /\ \E k \in 1 .. NumViews : Len(views[k].out) >= 2

\* C3: y[index] with index < 0 raises IndexError whatever the cache holds and
\* leaves the cache exactly as it was; y[0] on a fresh instance returns 0.
NegativeIndexRejected ==
    [][Query =>
         /\ lastQ'.index < 0 =>
                /\ lastQ'.out = Raised("IndexError")
                /\ sequence' = sequence
         /\ (sequence = SimplifiedInit /\ lastQ'.index = 0) =>
                /\ lastQ'.out = Value(0)]_vars

\* a negative index was asked of a cache that had grown
NegativeIndexRejectedWitness ==
    /\ lastQ.asked
    /\ lastQ.index < 0
    /\ lastQ.out = Raised("IndexError")
    /\ Len(sequence) > 4

\* the resumes before resume k were all sends refused by the unstarted generator
Unstarted(k) ==
    \A j \in 1 .. k - 1 : ~coroOut[j].sentNone /\ coroOut[j].out = Raised("TypeError")

\* C4: a fibonacchi_korutina instance is one-shot: its first resume (next)
\* suspends it awaiting an input and hands back None, no Fibonacci value; the
\* send(index) that follows, with index >= 0, yields F(index); after that the
\* routine ends: every later resume or send raises StopIteration, so one
\* instance yields at most one value.
KorutinaOneShot ==
    /\ \A k \in 1 .. Len(coroOut) :
           (coroOut[k].sentNone /\ Unstarted(k)) => coroOut[k].out = NoneValue
    /\ \A k \in 1 .. Len(coroOut) - 1 :
           (coroOut[k].out = NoneValue /\ ~coroOut[k + 1].sentNone /\ coro.index >= 0)
               => coroOut[k + 1].out = Value(F(coro.index))
    /\ \A j, k \in 1 .. Len(coroOut) :
           (j < k /\ coroOut[j].out.kind = "value")
               => coroOut[k].out = Raised("StopIteration")
    /\ Cardinality({k \in 1 .. Len(coroOut) : coroOut[k].out.kind = "value"}) <= 1
    /\ (coroOut # <<>> /\ coroOut[Len(coroOut)].out = Raised("StopIteration"))
           => coro.pc = "closed"

\* primed, sent 5, answered 5, resumed again
KorutinaOneShotWitness ==
    /\ Len(coroOut) = 3
    /\ coroOut[1] = [sentNone |-> TRUE, out |-> NoneValue]
    /\ coroOut[2] = [sentNone |-> FALSE, out |-> Value(5)]
    /\ coro.index = 5
    /\ coroOut[3].out = Raised("StopIteration")
    /\ coro.pc = "closed"

\* C11: a negative index sent to a primed fibonacchi_korutina raises nothing
\* and yields 0 (range(index) is empty, so a stays 0), and the routine is left
\* suspended at that yield; the same index asked of a fib_gen_simplified is
\* refused with IndexError.
KorutinaNegativeYieldsZero ==
    /\ \A k \in 1 .. Len(coroOut) - 1 :
           (coroOut[k].out = NoneValue /\ ~coroOut[k + 1].sentNone /\ coro.index < 0)
               => /\ coroOut[k + 1].out = Value(0)
                  /\ coro.a = 0
                  /\ k + 1 = Len(coroOut) => coro.pc = "yield"
    /\ (lastQ.asked /\ lastQ.index < 0) => lastQ.out = Raised("IndexError")

\* the same negative index went to a primed coroutine, which yielded 0, and
\* to the accessor, which raised IndexError
KorutinaNegativeYieldsZeroWitness ==
    /\ Len(coroOut) = 2
    /\ coroOut[1] = [sentNone |-> TRUE, out |-> NoneValue]
    /\ coroOut[2] = [sentNone |-> FALSE, out |-> Value(0)]
    /\ coro.index = 0 - MinIndex
    /\ coro.pc = "yield"
    /\ lastQ.asked
    /\ lastQ.index = coro.index
    /\ lastQ.out = Raised("IndexError")

\* C10: every generator obtained by iterating one fib_gen_simplified yields
\* F(0), F(1), F(2), ... from index 0 on, whatever was queried before and
\* however its resumes interleave with those of the other generators and with
\* direct queries: the generators share the cache, each keeps its own i.
ViewsYieldFib ==
    \A k \in 1 .. NumViews :
        /\ \A n \in 0 .. Len(views[k].out) - 1 : views[k].out[n + 1] = Value(F(n))
        /\ views[k].pc = "yield" => views[k].i = Len(views[k].out) - 1

\* two generators at different positions, behind the cache a direct query grew
ViewsYieldFibWitness ==
    /\ Len(views[1].out) = 4
    /\ Len(views[2].out) = 2
    /\ lastQ.asked /\ lastQ.index = MaxIndex
    /\ Len(sequence) = MaxIndex + 1

---------------------------------------------------------------------------
(* Properties of the provider chain (main.py).                             *)

\* the transforms of chain c applied one after the other, innermost first
RECURSIVE ApplyTransforms(_, _, _)
ApplyTransforms(c, k, x) ==
    IF k = 0 THEN x
    ELSE LET y == ApplyTransforms(c, k - 1, x)
         IN  IF c[k] = "yaml" THEN YamlDump(y) ELSE CsvText(FlattenData(y))

LastResp == Responses[lastOp.resp]
LastFile == files[Len(files)]

\* C5: for every chain of YamlDecorator and CsvDecorator wrappers around the
\* base provider, in any order, get_data() returns whenever the base fetch
\* succeeds, and returns the transforms applied innermost first to the
\* dataset fetched.
ChainsNeverRaise ==
    (lastOp.op = "get_data" /\ LastResp.kind = "ok") =>
        /\ lastOp.out.kind = "value"
        /\ lastOp.out.val = ApplyTransforms(lastOp.chain, Len(lastOp.chain), LastResp.json)

\* the name expected for path p by the decorator with extension ext
\* (also: a further accepted ending)
Expected(p, ext, also) ==
    IF EndsWith(p, ext) \/ EndsWith(p, also) THEN p ELSE p \o ext

\* C6: the file a decorator's save_to_file(path) opens has a name ending with
\* the decorator's extension: for YamlDecorator it is path itself when path
\* ends with .yaml or .yml and path + ".yaml" otherwise, for CsvDecorator path
\* itself when path ends with .csv and path + ".csv" otherwise; one extension
\* at most is appended and applying the rule to the name opened changes
\* nothing.
FileNameHasExtension ==
    (lastOp.op = "save_to_file" /\ lastOp.out.kind = "None" /\ lastOp.chain # <<>>) =>
        LET kind == lastOp.chain[Len(lastOp.chain)]
            p    == lastOp.path
            name == LastFile.name
        IN  /\ kind = "yaml" =>
                  /\ EndsWith(name, DotYaml) \/ EndsWith(name, DotYml)
                  /\ name = Expected(p, DotYaml, DotYml)
                  /\ YamlFileName(name) = name
            /\ kind = "csv" =>
                  /\ EndsWith(name, DotCsv)
                  /\ name = Expected(p, DotCsv, DotCsv)
                  /\ CsvFileName(name) = name
            /\ Len(name) \in {Len(p), Len(p) + Len(IF kind = "yaml" THEN DotYaml ELSE DotCsv)}

\* a YamlDecorator saved to r (opened r.yaml) and then to r.yml (opened r.yml)
FileNameHasExtensionWitness ==
    /\ Len(files) = 2
    /\ lastOp.chain # <<>> /\ lastOp.chain[Len(lastOp.chain)] = "yaml"
    /\ files[1].name = <<"r">> \o DotYaml
    /\ lastOp.path = <<"r">> \o DotYml
    /\ files[2].name = <<"r">> \o DotYml

\* the currency records of dataset d, in insertion order
Valutes(d) ==
    IF \E i \in 1 .. Len(d.v) : d.v[i].k = "Valute"
    THEN (d.v[CHOOSE i \in 1 .. Len(d.v) : d.v[i].k = "Valute"].v).v
    ELSE <<>>

\* field f of a record, or the default the flattening gives it
Cell(info, f, default) ==
    IF \E i \in 1 .. Len(info.v) : info.v[i].k = f
    THEN ScalarText(info.v[CHOOSE i \in 1 .. Len(info.v) : info.v[i].k = f].v)
    ELSE default

FailurePropagates ==
    (lastOp.op # "none" /\ LastResp.kind # "ok") =>
        /\ lastOp.out.kind = LastResp.kind
        /\ gets = lastOp.getsBefore + 1
        /\ Len(files) = lastOp.filesBefore

\* a save through two decorators failed in response.json(); the file of the
\* save before it is all there is
FailurePropagatesWitness ==
    /\ lastOp.op = "save_to_file"
    /\ Len(lastOp.chain) = 2
    /\ LastResp.kind = "JSONDecodeError"
    /\ lastOp.out.kind = "JSONDecodeError"
    /\ lastOp.filesBefore = 1
    /\ Len(files) = 1

\* what is returned or written comes from the response of the call's own GET
FreshData ==
    /\ gets = lastOp.getsBefore + 1
    /\ (lastOp.op = "get_data" /\ lastOp.out.kind = "value") =>
           lastOp.out.val = ApplyTransforms(lastOp.chain, Len(lastOp.chain), LastResp.json)
    /\ (lastOp.op = "save_to_file" /\ Len(files) > lastOp.filesBefore) =>
           /\ LastFile.by = Len(lastOp.chain)
           /\ LastResp.kind = "ok"
           /\ LastFile.text =
                  IF lastOp.chain = <<>> THEN JsonDump(LastResp.json)
                  ELSE ApplyTransforms(lastOp.chain, Len(lastOp.chain), LastResp.json)

\* C9 as stated: every get_data() and save_to_file() on a chain issues exactly
\* one GET and returns or writes the response of that GET, never the _data of
\* an earlier call; a save_to_file() on a decorator chain writes exactly one
\* file, by the outermost component.
NoCachingOneFile ==
    lastOp.op # "none" =>
        /\ FreshData
        /\ (lastOp.op = "save_to_file" /\ lastOp.chain # <<>>) =>
               Len(files) = lastOp.filesBefore + 1

\* C9, amended: every get_data() and save_to_file() on a chain issues exactly
\* one GET and returns or writes the response of that GET, never the _data of
\* an earlier call; a save_to_file() writes at most one file, by the outermost
\* component: exactly one when it returns, none when it raises.
NoCachingAtMostOneFile ==
    lastOp.op # "none" =>
        /\ FreshData
        /\ lastOp.op = "get_data" => Len(files) = lastOp.filesBefore
        /\ lastOp.op = "save_to_file" =>
               Len(files) = lastOp.filesBefore + (IF lastOp.out.kind = "None" THEN 1 ELSE 0)

\* a second call, through YamlDecorator(CsvDecorator(CBRProvider())), after
\* _data was set by a first one with another dataset: the file holds the
\* second response
NoCachingAtMostOneFileWitness ==
    /\ lastOp.n = 2
    /\ lastOp.op = "save_to_file"
    /\ lastOp.chain = <<"csv", "yaml">>
    /\ lastOp.dataBefore.type = "dict"
    /\ LastResp.kind = "ok"
    /\ DictKeys(lastOp.dataBefore) # DictKeys(LastResp.json)
    /\ Len(files) = lastOp.filesBefore + 1
    /\ LastFile.by = 2

====
